---- MODULE Spec2Model ----
(***************************************************************************)
(* A model of the simple-backup engine (smbkp): configuration validation,  *)
(* the free-space gate, the per-item backup loop with its exit-on-error    *)
(* policy, pattern matching, tree copy and retention cleanup.              *)
(*                                                                         *)
(* Go strings are modelled as sequences of one-character strings, so that  *)
(* prefix tests, trimming, lower-casing, globbing, path cleaning and       *)
(* lexical ordering are computed and not assumed.  uint64 values are       *)
(* modelled as four 16-bit limbs (little endian), so that the arithmetic   *)
(* of parseDiskSize keeps its 64-bit width.                                *)
(***************************************************************************)
EXTENDS Integers, Sequences, FiniteSets, TLC

VARIABLES
    \* ---- the process (main) ----
    pc,             \* position of main: "init", "review", "run", "loop", "cleanup", "exit"
    exitOnError,    \* flag -exit-on-error
    nonInteractive, \* flag -non-interactive
    destOK,         \* os.Stat(bkpDest) succeeds
    rawConfig,      \* the configuration file as unmarshalled over the defaults
    app,            \* the BackupApp: BkpConfig and bkpDestFullPath
    exitCode,       \* the code the process exited with; -1 while it runs
    probe,          \* what getFreeSpace returned to reviewBackupConfig: [called, ok, avail]
    \* ---- locals of runBackup ----
    totalCount,     \* iterations of the item loop started
    results,        \* []BackupResult: sequence of [Item, Success]
    failedCount,
    successCount,
    runErr,         \* runBackup returned a non-nil error
    \* ---- the destination file system ----
    destFs,         \* [dirs, files]: sets of absolute paths
    \* ---- what the run did (history) ----
    step,           \* the last step of main that ran
    failedItems,    \* indices of the items whose counting or copy returned an error
    created,        \* set of [path, item]: paths written, item 0 being runBackup itself
    counted,        \* indices of the items countTotalItems was called for
    copied,         \* indices of the items backupItem was called for
    prompt,         \* [at, typed]: the last prompt issued and the line typed at it
    cleanupRan,     \* cleanupOldBackups was called
    deleteTried,    \* paths os.RemoveAll was called on by cleanup
    removed,        \* paths os.RemoveAll removed
    \* ---- Config.validate applied to one configuration ----
    vIn,            \* the configuration handed to validate
    vOut,           \* [done, err, cfg]: what validate returned and left in *c
    \* ---- shouldInclude applied to one path ----
    mIn,            \* [path, include, exclude]
    mOut,           \* [done, result]
    \* ---- cleanupOldBackups applied to one backup root ----
    cIn,            \* [fs, run, keep]: the root's content, the run directory, BackupsToKeep
    cOut,           \* [done, fs, tried, removed, failing]
    \* ---- backupItem applied to one directory item ----
    wIn,            \* [source, include, exclude, fault]
    wOut,           \* [done, err, fs, new, progress, countErr, total]
    \* ---- the progress callback of one item ----
    bar             \* [total, processed, lastUpdate, redraws]

mainVars == <<pc, exitOnError, nonInteractive, destOK, rawConfig, app, exitCode, probe,
              totalCount, results, failedCount, successCount, runErr, destFs,
              created, counted, copied, prompt, cleanupRan, deleteTried, removed,
              step, failedItems>>

validateVars == <<vIn, vOut>>

matchVars == <<mIn, mOut>>

cleanupVars == <<cIn, cOut>>

copyVars == <<wIn, wOut>>

progressVars == <<bar>>

otherVars == <<validateVars, matchVars, cleanupVars, copyVars, progressVars>>

vars == <<mainVars, otherVars>>

(***************************************************************************)
(* Strings                                                                 *)
(***************************************************************************)
Max(S) == CHOOSE x \in S : \A y \in S : y <= x
Min(S) == CHOOSE x \in S : \A y \in S : x <= y

\* strings.HasPrefix
HasPrefix(s, p) == Len(p) <= Len(s) /\ SubSeq(s, 1, Len(p)) = p

\* strings.HasSuffix
HasSuffix(s, p) == Len(p) <= Len(s) /\ SubSeq(s, Len(s) - Len(p) + 1, Len(s)) = p

\* strings.TrimSuffix
TrimSuffix(s, p) == IF HasSuffix(s, p) THEN SubSeq(s, 1, Len(s) - Len(p)) ELSE s

\* unicode.ToLower on the letters the model uses
LowerChar(c) ==
    CASE c = "M" -> "m" [] c = "B" -> "b" [] c = "G" -> "g"
      [] c = "N" -> "n" [] c = "O" -> "o"
      [] c = "Y" -> "y" [] c = "E" -> "e" [] c = "S" -> "s"
      [] OTHER -> c

\* strings.ToLower
ToLower(s) == [i \in 1..Len(s) |-> LowerChar(s[i])]

IsSpace(c) == c \in {" ", "\t", "\n", "\r"}

\* strings.TrimSpace
TrimSpace(s) ==
    LET keep == {i \in 1..Len(s) : ~IsSpace(s[i])}
    IN  IF keep = {} THEN <<>> ELSE SubSeq(s, Min(keep), Max(keep))

Digits == {"0", "1", "2", "3", "4", "5", "6", "7", "8", "9"}

DigitVal(c) ==
    CASE c = "0" -> 0 [] c = "1" -> 1 [] c = "2" -> 2 [] c = "3" -> 3
      [] c = "4" -> 4 [] c = "5" -> 5 [] c = "6" -> 6 [] c = "7" -> 7
      [] c = "8" -> 8 [] c = "9" -> 9

(***************************************************************************)
(* uint64 as four 16-bit limbs, least significant first                    *)
(***************************************************************************)
LimbBase == 2^16

U64Zero == <<0, 0, 0, 0>>

\* the uint64 value of a small natural (below 2^31)
U64(n) == <<n % LimbBase, n \div LimbBase, 0, 0>>

\* x * m + a on 64 bits, m and a small; carry is what does not fit
U64MulAdd(x, m, a) ==
    LET t1 == x[1] * m + a
        t2 == x[2] * m + (t1 \div LimbBase)
        t3 == x[3] * m + (t2 \div LimbBase)
        t4 == x[4] * m + (t3 \div LimbBase)
    IN  [v |-> <<t1 % LimbBase, t2 % LimbBase, t3 % LimbBase, t4 % LimbBase>>,
         carry |-> t4 \div LimbBase]

\* uint64 multiplication by a small factor: the result wraps modulo 2^64
U64Mul(x, m) == U64MulAdd(x, m, 0).v

\* x < y on uint64
U64Less(x, y) ==
    \E i \in 1..4 : x[i] < y[i] /\ \A j \in (i + 1)..4 : x[j] = y[j]

\* strconv.ParseInt(s, 10, 64) on an unsigned decimal string: the value, or
\* an error for an empty string, a non-digit, or a value above 2^63 - 1.
\* (validate reaches it with digits only, by the pattern it checks first.)
RECURSIVE ParseDigits(_, _, _)
ParseDigits(s, i, acc) ==
    IF i > Len(s) THEN [ok |-> TRUE, v |-> acc]
    ELSE IF s[i] \notin Digits THEN [ok |-> FALSE, v |-> U64Zero]
    ELSE LET r == U64MulAdd(acc, 10, DigitVal(s[i]))
         IN  IF r.carry > 0 \/ r.v[4] >= 2^15
             THEN [ok |-> FALSE, v |-> U64Zero]
             ELSE ParseDigits(s, i + 1, r.v)

ParseInt(s) ==
    IF s = <<>> THEN [ok |-> FALSE, v |-> U64Zero] ELSE ParseDigits(s, 1, U64Zero)

(***************************************************************************)
(* Limits and defaults                                                     *)
(***************************************************************************)
Prefix == <<"s", "m", "b", "k", "p">>

LimitMinBackupsToKeep == 1

LimitMinFreeSpace == <<"1", "0", "m", "b">>

LimitMinFreeSpaceParsed == 10485760

Separator == "/"

(***************************************************************************)
(* parseDiskSize and Config.validate                                       *)
(***************************************************************************)
\* parseDiskSize: "<N>mb" -> N * 1024 * 1024, "<N>gb" -> N * 1024 * 1024 * 1024,
\* the product taken in uint64
parseDiskSize(sizeStr) ==
    LET s  == ToLower(TrimSpace(sizeStr))
        mb == <<"m", "b">>
        gb == <<"g", "b">>
    IN  IF HasSuffix(s, mb)
        THEN LET num == ParseInt(TrimSpace(TrimSuffix(s, mb)))
             IN  IF num.ok
                 THEN [ok |-> TRUE, v |-> U64Mul(U64Mul(num.v, 1024), 1024)]
                 ELSE [ok |-> FALSE, v |-> U64Zero]
        ELSE IF HasSuffix(s, gb)
        THEN LET num == ParseInt(TrimSpace(TrimSuffix(s, gb)))
             IN  IF num.ok
                 THEN [ok |-> TRUE, v |-> U64Mul(U64Mul(U64Mul(num.v, 1024), 1024), 1024)]
                 ELSE [ok |-> FALSE, v |-> U64Zero]
        ELSE [ok |-> FALSE, v |-> U64Zero]

\* regexp MinFreeSpacePattern, ^\d+(mb|gb)$, matched against s
MatchMinFreeSpacePattern(s) ==
    /\ Len(s) >= 3
    /\ SubSeq(s, Len(s) - 1, Len(s)) \in {<<"m", "b">>, <<"g", "b">>}
    /\ \A i \in 1..(Len(s) - 2) : s[i] \in Digits

\* filepath.Base: the last element of the path, trailing separators removed
RECURSIVE StripTrailingSeparators(_)
StripTrailingSeparators(p) ==
    IF Len(p) > 0 /\ p[Len(p)] = Separator
    THEN StripTrailingSeparators(SubSeq(p, 1, Len(p) - 1))
    ELSE p

Base(path) ==
    IF path = <<>> THEN <<".">>
    ELSE LET p    == StripTrailingSeparators(path)
             seps == {i \in 1..Len(p) : p[i] = Separator}
             q    == IF seps = {} THEN p ELSE SubSeq(p, Max(seps) + 1, Len(p))
         IN  IF q = <<>> THEN <<Separator>> ELSE q

\* the default of an item's destination: the leaf of its source
DefaultDestination(item) ==
    IF item.Destination = <<>>
    THEN [item EXCEPT !.Destination = Base(item.Source)]
    ELSE item

\* the two assignments of validate after the comparison with the floor: the
\* branch sets the floor, the statement after it stores the parsed value
StoreMinFreeSpace(c, parsed) ==
    LET floored == IF U64Less(parsed, U64(LimitMinFreeSpaceParsed))
                   THEN [c EXCEPT !.MinFreeSpace = LimitMinFreeSpace,
                                  !.minFreeSpaceParsed = U64(LimitMinFreeSpaceParsed)]
                   ELSE c
    IN  [floored EXCEPT !.minFreeSpaceParsed = parsed]

\* Config.validate: [err, cfg], cfg being *c as validate leaves it
validate(c) ==
    LET c1 == IF c.BackupsToKeep < LimitMinBackupsToKeep
              THEN [c EXCEPT !.BackupsToKeep = LimitMinBackupsToKeep]
              ELSE c
    IN  IF ~MatchMinFreeSpacePattern(ToLower(c1.MinFreeSpace))
        THEN [err |-> TRUE, cfg |-> c1]
        ELSE LET parsed == parseDiskSize(c1.MinFreeSpace)
             IN  IF ~parsed.ok
                 THEN [err |-> TRUE, cfg |-> c1]
                 ELSE LET c2 == StoreMinFreeSpace(c1, parsed.v)
                      IN  [err |-> FALSE,
                           cfg |-> [c2 EXCEPT !.BkpItems =
                                       [i \in 1..Len(c2.BkpItems) |->
                                           DefaultDestination(c2.BkpItems[i])]]]

(***************************************************************************)
(* Paths (package path/filepath, separator "/")                            *)
(***************************************************************************)
\* the non-empty elements of a path between separators
RECURSIVE Elements(_, _, _, _)
Elements(p, i, cur, acc) ==
    LET flushed == IF cur = <<>> THEN acc ELSE Append(acc, cur)
    IN  IF i > Len(p) THEN flushed
        ELSE IF p[i] = Separator THEN Elements(p, i + 1, <<>>, flushed)
        ELSE Elements(p, i + 1, Append(cur, p[i]), acc)

\* the lexical processing of "." and ".." elements by filepath.Clean
RECURSIVE Resolve(_, _, _, _)
Resolve(elems, i, stack, rooted) ==
    IF i > Len(elems) THEN stack
    ELSE LET e == elems[i]
         IN  IF e = <<".">> THEN Resolve(elems, i + 1, stack, rooted)
             ELSE IF e = <<".", ".">>
             THEN IF stack # <<>> /\ stack[Len(stack)] # <<".", ".">>
                  THEN Resolve(elems, i + 1, SubSeq(stack, 1, Len(stack) - 1), rooted)
                  ELSE IF rooted THEN Resolve(elems, i + 1, stack, rooted)
                  ELSE Resolve(elems, i + 1, Append(stack, e), rooted)
             ELSE Resolve(elems, i + 1, Append(stack, e), rooted)

RECURSIVE JoinElements(_)
JoinElements(elems) ==
    IF elems = <<>> THEN <<>>
    ELSE IF Len(elems) = 1 THEN elems[1]
    ELSE elems[1] \o <<Separator>> \o JoinElements(Tail(elems))

\* filepath.Clean
Clean(p) ==
    LET rooted == p # <<>> /\ p[1] = Separator
        body   == JoinElements(Resolve(Elements(p, 1, <<>>, <<>>), 1, <<>>, rooted))
        out    == IF rooted THEN <<Separator>> \o body ELSE body
    IN  IF out = <<>> THEN <<".">> ELSE out

\* filepath.Join(a, b): empty elements are ignored, the result is cleaned
Join(a, b) ==
    IF a = <<>> /\ b = <<>> THEN <<>>
    ELSE IF a = <<>> THEN Clean(b)
    ELSE IF b = <<>> THEN Clean(a)
    ELSE Clean(a \o <<Separator>> \o b)

\* filepath.Dir: all but the last element of the path, cleaned
Dir(p) ==
    LET seps == {i \in 1..Len(p) : p[i] = Separator}
    IN  IF seps = {} THEN <<".">> ELSE Clean(SubSeq(p, 1, Max(seps)))

\* p is d or lies below d (both cleaned paths)
IsUnder(p, d) == p = d \/ HasPrefix(p, d \o <<Separator>>)

\* p is an immediate child of d
IsChildOf(p, d) ==
    /\ HasPrefix(p, d \o <<Separator>>)
    /\ Len(p) > Len(d) + 1
    /\ \A i \in (Len(d) + 2)..Len(p) : p[i] # Separator

\* p and every ancestor of p, the root included
Ancestors(p) ==
    {SubSeq(p, 1, i) : i \in {j \in 1..Len(p) : j = Len(p) \/ p[j + 1] = Separator}}
        \ {<<>>}

(***************************************************************************)
(* Pattern matching                                                        *)
(***************************************************************************)
\* filepath.Match for patterns made of literal characters, "*" and "?":
\* "*" matches any sequence of non-separator characters, "?" one of them
RECURSIVE Match(_, _)
Match(pattern, name) ==
    IF pattern = <<>> THEN name = <<>>
    ELSE IF Head(pattern) = "*"
    THEN \/ Match(Tail(pattern), name)
         \/ name # <<>> /\ Head(name) # Separator /\ Match(pattern, Tail(name))
    ELSE IF name = <<>> THEN FALSE
    ELSE IF Head(pattern) = "?"
    THEN Head(name) # Separator /\ Match(Tail(pattern), Tail(name))
    ELSE Head(pattern) = Head(name) /\ Match(Tail(pattern), Tail(name))

\* PatternHits comparing the start of the path with the pattern text alone,
\* without the separator after it
PatternHits_NoBoundary(pattern, path) ==
    Match(pattern, path) \/ HasPrefix(path, pattern)

\* one pattern of a list applies to the path: directly, or as a directory above it
PatternHits(pattern, path) ==
    Match(pattern, path) \/ HasPrefix(path, pattern \o <<Separator>>)

\* shouldInclude requiring an include match even when the include list is empty
shouldInclude_EmptyIncludeRejects(path, include, exclude) ==
    LET included == \E i \in 1..Len(include) : PatternHits(include[i], path)
        excluded == \E i \in 1..Len(exclude) : PatternHits(exclude[i], path)
    IN  included /\ ~excluded

\* shouldInclude returning as soon as an include pattern matches
shouldInclude_IncludeWins(path, include, exclude) ==
    LET included == \E i \in 1..Len(include) : PatternHits(include[i], path)
        excluded == \E i \in 1..Len(exclude) : PatternHits(exclude[i], path)
    IN  IF Len(include) > 0 /\ included THEN TRUE
        ELSE IF Len(include) > 0 THEN FALSE
        ELSE ~excluded

\* BackupApp.shouldInclude
shouldInclude(path, include, exclude) ==
    LET included == \E i \in 1..Len(include) : PatternHits(include[i], path)
        excluded == \E i \in 1..Len(exclude) : PatternHits(exclude[i], path)
    IN  IF Len(include) > 0 /\ ~included THEN FALSE
        ELSE IF excluded THEN FALSE
        ELSE TRUE

(***************************************************************************)
(* The source tree that is backed up (read only)                           *)
(***************************************************************************)
SrcDir  == <<"/", "s", "/", "d">>
SrcFile == <<"/", "s", "/", "f">>

\* os.Stat on a source path: "dir", "file" or "none" (the call fails)
SrcKind(path) ==
    IF path = SrcDir THEN "dir" ELSE IF path = SrcFile THEN "file" ELSE "none"

\* what filepath.Walk visits below SrcDir, in its order (lexical, parents first):
\* a file, a symlink to a directory, a directory and a file in it
SrcTree ==
    << [rel |-> <<"a">>,           kind |-> "file"],
       [rel |-> <<"l">>,           kind |-> "symdir"],
       [rel |-> <<"t">>,           kind |-> "dir"],
       [rel |-> <<"t", "/", "a">>, kind |-> "file"] >>

NoFault == [at |-> -1, kind |-> "none"]

(***************************************************************************)
(* Operations on the destination file system: fs = [dirs, files]           *)
(***************************************************************************)
\* os.MkdirAll(p): fails when p or an ancestor of p is not a directory;
\* creates p and its missing ancestors otherwise
MkdirAll(fs, p) ==
    IF \E a \in Ancestors(p) : a \in fs.files
    THEN [ok |-> FALSE, fs |-> fs, new |-> {}]
    ELSE [ok |-> TRUE,
          fs |-> [fs EXCEPT !.dirs = @ \cup Ancestors(p)],
          new |-> Ancestors(p) \ fs.dirs]

\* os.RemoveAll(p): p and everything below it
RemoveAll(fs, p) ==
    [dirs  |-> {d \in fs.dirs  : ~IsUnder(d, p)},
     files |-> {f \in fs.files : ~IsUnder(f, p)}]

\* BackupApp.copyFile(src, dest, progressCb), with the I/O fault that hits it:
\* "io" (open, create or read fails) or "chmod" (the copy is written, the
\* callback has run, reading or setting the mode fails).
\* [err, fs, new, progress]
copyFile(fs, dest, fault) ==
    LET md == MkdirAll(fs, Dir(dest))
    IN  IF ~md.ok
        THEN [err |-> TRUE, fs |-> fs, new |-> {}, progress |-> 0]
        ELSE IF fault = "io" \/ dest \in md.fs.dirs
        THEN [err |-> TRUE, fs |-> md.fs, new |-> md.new, progress |-> 0]
        ELSE [err |-> fault = "chmod",
              fs |-> [md.fs EXCEPT !.files = @ \cup {dest}],
              new |-> md.new \cup {dest},
              progress |-> 1]

\* walkError that returns every error, the protected paths included
walkError_AlwaysFails(st, e, fault) == [st EXCEPT !.err = TRUE]

\* the callback of a walk called with err # nil on entry e: an error that
\* isWindowsProtectedPath classifies as a protected path returns nil, the
\* entry (and what is below it) is passed over; any other error is returned
walkError(st, e, fault) ==
    IF fault = "protected"
    THEN IF e.kind = "dir" THEN [st EXCEPT !.skip = e.rel] ELSE st
    ELSE [st EXCEPT !.err = TRUE]

\* copyEntry that does not prune: an excluded directory is passed over, the
\* walk goes on below it
copyEntry_NoPrune(st, e, dest, include, exclude, fault) ==
    IF fault \in {"walk", "protected"} THEN walkError(st, e, fault)
    ELSE IF ~shouldInclude(e.rel, include, exclude) THEN st
    ELSE LET destPath == Join(dest, e.rel)
         IN  IF e.kind = "dir"
             THEN LET md == MkdirAll(st.fs, destPath)
                  IN  IF fault = "io" \/ ~md.ok
                      THEN [st EXCEPT !.err = TRUE]
                      ELSE [st EXCEPT !.fs = md.fs, !.new = @ \cup md.new,
                                      !.progress = @ + 1]
             ELSE LET cf == copyFile(st.fs, destPath, fault)
                  IN  [st EXCEPT !.err = cf.err, !.fs = cf.fs,
                                 !.new = @ \cup cf.new,
                                 !.progress = @ + cf.progress]

\* copyEntry that copies files only: a directory exists in the destination
\* only as the parent of a file copied into it
copyEntry_FilesOnly(st, e, dest, include, exclude, fault) ==
    IF st.skip # <<>> /\ HasPrefix(e.rel, st.skip \o <<Separator>>) THEN st
    ELSE IF fault \in {"walk", "protected"} THEN walkError(st, e, fault)
    ELSE IF ~shouldInclude(e.rel, include, exclude)
    THEN IF e.kind = "dir" THEN [st EXCEPT !.skip = e.rel] ELSE st
    ELSE IF e.kind = "dir" THEN st
    ELSE LET cf == copyFile(st.fs, Join(dest, e.rel), fault)
         IN  [st EXCEPT !.err = cf.err, !.fs = cf.fs,
                        !.new = @ \cup cf.new,
                        !.progress = @ + cf.progress]

\* one callback of the walk of copyDirectory, on entry i of the tree.
\* st = [err, fs, new, progress, skip]: skip is the directory the walk does
\* not descend into (filepath.SkipDir), or <<>>
copyEntry(st, e, dest, include, exclude, fault) ==
    IF st.skip # <<>> /\ HasPrefix(e.rel, st.skip \o <<Separator>>) THEN st
    ELSE IF fault \in {"walk", "protected"} THEN walkError(st, e, fault)
    ELSE IF ~shouldInclude(e.rel, include, exclude)
    THEN IF e.kind = "dir" THEN [st EXCEPT !.skip = e.rel] ELSE st
    ELSE LET destPath == Join(dest, e.rel)
         IN  IF e.kind = "dir"
             THEN LET md == MkdirAll(st.fs, destPath)
                  IN  IF fault = "io" \/ ~md.ok
                      THEN [st EXCEPT !.err = TRUE]
                      ELSE [st EXCEPT !.fs = md.fs,
                                      !.new = @ \cup md.new,
                                      !.progress = @ + 1]
             ELSE IF e.kind = "symdir"
             THEN \* os.Symlink(target, destPath): no callback
                  IF \/ fault = "io"
                     \/ destPath \in st.fs.dirs \cup st.fs.files
                     \/ Dir(destPath) \notin st.fs.dirs
                  THEN [st EXCEPT !.err = TRUE]
                  ELSE [st EXCEPT !.fs.files = @ \cup {destPath},
                                  !.new = @ \cup {destPath}]
             ELSE LET cf == copyFile(st.fs, destPath, fault)
                  IN  [st EXCEPT !.err = cf.err,
                                 !.fs = cf.fs,
                                 !.new = @ \cup cf.new,
                                 !.progress = @ + cf.progress]

\* BackupApp.copyDirectory: the walk stops at the first error
RECURSIVE copyWalk(_, _, _, _, _, _)
copyWalk(st, i, dest, include, exclude, fault) ==
    IF i > Len(SrcTree) \/ st.err THEN st
    ELSE copyWalk(copyEntry(st, SrcTree[i], dest, include, exclude,
                            IF fault.at = i THEN fault.kind ELSE "none"),
                  i + 1, dest, include, exclude, fault)

copyDirectory(fs, dest, include, exclude, fault) ==
    copyWalk([err |-> FALSE, fs |-> fs, new |-> {}, progress |-> 0, skip |-> <<>>],
             1, dest, include, exclude, fault)

\* backupItem that applies the patterns to a single file too, by its name
backupItem_FiltersFile(fs, item, bkpDestFullPath, fault) ==
    LET destPath == Join(bkpDestFullPath, item.Destination)
    IN  IF shouldInclude(Base(item.Source), item.Include, item.Exclude)
        THEN copyFile(fs, destPath, IF fault.at = 0 THEN fault.kind ELSE "none")
        ELSE [err |-> FALSE, fs |-> fs, new |-> {}, progress |-> 0]

\* BackupApp.backupItem.  fault.at = 0 is a failure of os.Stat on the source
\* or of creating the item's destination directory.
\* [err, fs, new, progress]
backupItem(fs, item, bkpDestFullPath, fault) ==
    LET destPath == Join(bkpDestFullPath, item.Destination)
        failed   == [err |-> TRUE, fs |-> fs, new |-> {}, progress |-> 0]
    IN  IF SrcKind(item.Source) = "none" \/ (fault.at = 0 /\ fault.kind = "walk")
        THEN failed
        ELSE IF SrcKind(item.Source) = "dir"
        THEN LET md == MkdirAll(fs, destPath)
             IN  IF ~md.ok \/ (fault.at = 0 /\ fault.kind = "io")
                 THEN failed
                 ELSE LET cd == copyDirectory(md.fs, destPath, item.Include,
                                              item.Exclude, fault)
                      IN  [err |-> cd.err, fs |-> cd.fs,
                           new |-> md.new \cup cd.new,
                           progress |-> cd.progress]
        ELSE copyFile(fs, destPath, IF fault.at = 0 THEN fault.kind ELSE "none")

\* countEntry that counts files only, not the directories
countEntry_FilesOnly(st, e, include, exclude, fault) ==
    IF st.skip # <<>> /\ HasPrefix(e.rel, st.skip \o <<Separator>>) THEN st
    ELSE IF fault \in {"walk", "protected"} THEN walkError(st, e, fault)
    ELSE IF ~shouldInclude(e.rel, include, exclude)
    THEN IF e.kind = "dir" THEN [st EXCEPT !.skip = e.rel] ELSE st
    ELSE IF e.kind = "dir" THEN st
    ELSE [st EXCEPT !.total = @ + 1]

\* one callback of the walk of countTotalItems. st = [err, total, skip]
countEntry(st, e, include, exclude, fault) ==
    IF st.skip # <<>> /\ HasPrefix(e.rel, st.skip \o <<Separator>>) THEN st
    ELSE IF fault \in {"walk", "protected"} THEN walkError(st, e, fault)
    ELSE IF ~shouldInclude(e.rel, include, exclude)
    THEN IF e.kind = "dir" THEN [st EXCEPT !.skip = e.rel] ELSE st
    ELSE [st EXCEPT !.total = @ + 1]

RECURSIVE countWalk(_, _, _, _, _)
countWalk(st, i, include, exclude, fault) ==
    IF i > Len(SrcTree) \/ st.err THEN st
    ELSE countWalk(countEntry(st, SrcTree[i], include, exclude,
                              IF fault.at = i THEN fault.kind ELSE "none"),
                   i + 1, include, exclude, fault)

\* BackupApp.countTotalItems: [err, total]
countTotalItems(item, fault) ==
    IF SrcKind(item.Source) = "none" \/ (fault.at = 0 /\ fault.kind = "walk")
    THEN [err |-> TRUE, total |-> 0]
    ELSE IF SrcKind(item.Source) # "dir"
    THEN [err |-> FALSE, total |-> 1]
    ELSE LET w == countWalk([err |-> FALSE, total |-> 0, skip |-> <<>>],
                            1, item.Include, item.Exclude, fault)
         IN  [err |-> w.err, total |-> w.total]

(***************************************************************************)
(* Retention cleanup                                                       *)
(***************************************************************************)
\* the characters of the model in the order of their byte values
CharOrder ==
    <<" ", "*", "-", ".", "/", "0", "1", "2", "3", "4", "5", "6", "7", "8", "9",
      "?", "a", "b", "c", "d", "f", "k", "l", "m", "o", "p", "s", "t", "x", "z">>

CharCode(c) == CHOOSE i \in 1..Len(CharOrder) : CharOrder[i] = c

\* a < b as Go compares strings: byte by byte, a proper prefix being smaller
StrLess(a, b) ==
    \E i \in 1..Len(b) :
        /\ i <= Len(a) + 1
        /\ \A j \in 1..(i - 1) : a[j] = b[j]
        /\ i = Len(a) + 1 \/ CharCode(a[i]) < CharCode(b[i])

\* the strings of a set in ascending order
RECURSIVE SortedNames(_)
SortedNames(S) ==
    IF S = {} THEN <<>>
    ELSE LET m == CHOOSE x \in S : \A y \in S \ {x} : StrLess(x, y)
         IN  <<m>> \o SortedNames(S \ {m})

\* os.ReadDir(dir): the entries of dir, sorted by file name
ReadDir(dirfs, dir) ==
    LET names == {Base(p) : p \in {q \in dirfs.dirs \cup dirfs.files : IsChildOf(q, dir)}}
        sorted == SortedNames(names)
    IN  [i \in 1..Len(sorted) |->
            [Name |-> sorted[i], IsDir |-> Join(dir, sorted[i]) \in dirfs.dirs]]

\* backupDirsOf that takes every directory whose name starts with Prefix
backupDirsOf_PrefixOnly(entries) ==
    SelectSeq(entries, LAMBDA e : e.IsDir /\ HasPrefix(e.Name, Prefix))

\* the entries cleanup takes for backups: directories named Prefix-...
backupDirsOf(entries) ==
    SelectSeq(entries, LAMBDA e : e.IsDir /\ HasPrefix(e.Name, Prefix \o <<"-">>))

\* removeOldest taking the entries from the end of the list: the newest
RECURSIVE removeOldest_FromEnd(_, _, _, _, _, _)
removeOldest_FromEnd(st, backupRoot, backupDirs, i, toDelete, failing) ==
    IF i > toDelete THEN st
    ELSE LET dirPath == Join(backupRoot, backupDirs[Len(backupDirs) - i + 1].Name)
             next == IF dirPath \in failing
                     THEN [st EXCEPT !.tried = @ \cup {dirPath}]
                     ELSE [st EXCEPT !.tried = @ \cup {dirPath},
                                     !.removed = @ \cup {dirPath},
                                     !.fs = RemoveAll(@, dirPath)]
         IN  removeOldest_FromEnd(next, backupRoot, backupDirs, i + 1, toDelete, failing)

\* removeOldest returning at the first removal that fails
RECURSIVE removeOldest_StopsAtFailure(_, _, _, _, _, _)
removeOldest_StopsAtFailure(st, backupRoot, backupDirs, i, toDelete, failing) ==
    IF i > toDelete THEN st
    ELSE LET dirPath == Join(backupRoot, backupDirs[i].Name)
         IN  IF dirPath \in failing
             THEN [st EXCEPT !.tried = @ \cup {dirPath}]
             ELSE removeOldest_StopsAtFailure(
                      [st EXCEPT !.tried = @ \cup {dirPath},
                                 !.removed = @ \cup {dirPath},
                                 !.fs = RemoveAll(@, dirPath)],
                      backupRoot, backupDirs, i + 1, toDelete, failing)

\* the removal loop: the first toDelete entries, a failure being logged only
RECURSIVE removeOldest(_, _, _, _, _, _)
removeOldest(st, backupRoot, backupDirs, i, toDelete, failing) ==
    IF i > toDelete THEN st
    ELSE LET dirPath == Join(backupRoot, backupDirs[i].Name)
             next == IF dirPath \in failing
                     THEN [st EXCEPT !.tried = @ \cup {dirPath}]
                     ELSE [st EXCEPT !.tried = @ \cup {dirPath},
                                     !.removed = @ \cup {dirPath},
                                     !.fs = RemoveAll(@, dirPath)]
         IN  removeOldest(next, backupRoot, backupDirs, i + 1, toDelete, failing)

\* BackupApp.cleanupOldBackups: readOK is whether os.ReadDir succeeds, failing
\* the paths os.RemoveAll fails on.  [fs, tried, removed]; it returns nil always.
cleanupOldBackups(dirfs, bkpDestFullPath, BackupsToKeep, readOK, failing) ==
    LET backupRoot == Dir(bkpDestFullPath)
        st0        == [fs |-> dirfs, tried |-> {}, removed |-> {}]
    IN  IF ~readOK \/ backupRoot \notin dirfs.dirs THEN st0
        ELSE LET backupDirs == backupDirsOf(ReadDir(dirfs, backupRoot))
             IN  IF Len(backupDirs) <= BackupsToKeep THEN st0
                 ELSE removeOldest(st0, backupRoot, backupDirs, 1,
                                   Len(backupDirs) - BackupsToKeep, failing)

(***************************************************************************)
(* The environment of a run: bounds and inputs                             *)
(***************************************************************************)
MaxItems == 2

\* the entries of the walk a fault may hit; 0 is the item's root
FaultPositions == {0, 1}

BkpDest == <<"/", "m">>

BackupRoot == <<"/", "m", "/", "b">>

\* the name of a run directory: Prefix, "-" and the timestamp
RunDirName(timestamp) == Prefix \o <<"-">> \o timestamp

\* time.Now() formatted to the second; a later time gives a lexically greater
\* string: the second of the run directory smbkp-3 that exists, or a later one
Timestamps == {<<"3">>, <<"4">>}

ItemDir ==
    [Source |-> SrcDir, Destination |-> <<>>,
     Include |-> <<>>, Exclude |-> << <<"t">> >>]

ItemFile ==
    [Source |-> SrcFile, Destination |-> <<".", ".", "/", "x">>,
     Include |-> <<>>, Exclude |-> <<>>]

ItemUniverse == {ItemDir, ItemFile}

\* bkp_items: up to MaxItems items, a directory and a file taking turns
ItemLists ==
    {[i \in 1..n |-> IF (i + first) % 2 = 0 THEN ItemDir ELSE ItemFile] :
        n \in 0..MaxItems, first \in {0, 1}}

\* min_free_space values of the configuration file
MainMinFreeSpace ==
    { <<"5", "m", "b">>, <<"1", "0", "g", "b">>, <<"a", "b", "c">> }

\* NewConfig() overlaid with the file's values
RawConfig(keep, minFree, items) ==
    [BkpDestDir |-> <<"b">>, BackupsToKeep |-> keep, MinFreeSpace |-> minFree,
     minFreeSpaceParsed |-> U64(LimitMinFreeSpaceParsed), BkpItems |-> items]

RawConfigs ==
    {RawConfig(0, m, it) : m \in MainMinFreeSpace, it \in ItemLists}

\* getFreeSpace: an error, 7 MiB or 5,000,000,000 bytes
FreeSpaceProbes ==
    { [called |-> TRUE, ok |-> FALSE, avail |-> U64Zero],
      [called |-> TRUE, ok |-> TRUE, avail |-> <<0, 112, 0, 0>>],
      [called |-> TRUE, ok |-> TRUE, avail |-> <<61952, 10757, 1, 0>>] }

NotProbed == [called |-> FALSE, ok |-> FALSE, avail |-> U64Zero]

\* the destination before the run: the drive alone, or a backup root with two
\* earlier run directories, another directory and a file named like a backup
OldRun1 == BackupRoot \o <<Separator>> \o RunDirName(<<"1">>)
OldRun3 == BackupRoot \o <<Separator>> \o RunDirName(<<"3">>)

FsBare == [dirs |-> {<<"/">>, BkpDest}, files |-> {}]

FsUsed ==
    [dirs  |-> {<<"/">>, BkpDest, BackupRoot, OldRun1, OldRun3,
                BackupRoot \o <<"/", "o">>},
     files |-> {BackupRoot \o <<Separator>> \o RunDirName(<<"0">>),
                OldRun1 \o <<"/", "f">>}]

FsInits == {FsUsed}

\* what the operator types at a prompt, without the line end
TypedLines ==
    { <<"n", "o">>, <<" ", "N", "o">>, <<"y", "e", "s">>, <<"Y", "E", "S">>,
      <<"y", "e", "s", " ", "x">>, <<>> }

\* the lines that may be typed at a prompt, when one is issued
TypedAt(prompted) == IF prompted THEN TypedLines ELSE {<<>>}

NoPrompt == [at |-> "none", typed |-> <<>>]

CountFaults == {NoFault} \cup {[at |-> k, kind |-> "walk"] : k \in FaultPositions}

CopyFaults ==
    {NoFault} \cup {[at |-> k, kind |-> f] : k \in FaultPositions, f \in {"walk", "io", "chmod"}}

\* bufio.Reader.ReadString('\n') on the typed line
ReadString(typed) == typed \o <<"\n">>

\* fmt.Scanln(&response): the first space-separated token of the line
Scanln(typed) ==
    LET ink == {i \in 1..Len(typed) : ~IsSpace(typed[i])}
    IN  IF ink = {} THEN <<>>
        ELSE LET start == Min(ink)
                 stops == {i \in start..Len(typed) : IsSpace(typed[i])}
             IN  SubSeq(typed, start, IF stops = {} THEN Len(typed) ELSE Min(stops) - 1)

\* the answer the code compares: trimmed and lower-cased
Normalize(line) == TrimSpace(ToLower(line))

AnswerNo == <<"n", "o">>

AnswerYes == <<"y", "e", "s">>

(***************************************************************************)
(* The process: main, reviewBackupConfig, runBackup                        *)
(***************************************************************************)
runVars == <<totalCount, results, failedCount, successCount, destFs, created,
             counted, copied, cleanupRan, deleteTried, removed, failedItems>>

\* exitApp(nonInteractive, code): the process ends with the code
exitApp(code) == pc' = "exit" /\ exitCode' = code

\* the parts of the state a specification does not use stay as they are here
ValidateIdle ==
    /\ vIn = RawConfig(0, <<>>, <<>>)
    /\ vOut = [done |-> FALSE, err |-> FALSE, cfg |-> vIn]

MatchIdle ==
    /\ mIn = [path |-> <<>>, include |-> <<>>, exclude |-> <<>>]
    /\ mOut = [done |-> FALSE, result |-> FALSE]

CleanupIdle ==
    /\ cIn = [fs |-> FsBare, run |-> <<>>, keep |-> 0]
    /\ cOut = [done |-> FALSE, fs |-> FsBare, tried |-> {}, removed |-> {}, failing |-> {}]

CopyIdle ==
    /\ wIn = [source |-> <<>>, include |-> <<>>, exclude |-> <<>>, fault |-> NoFault]
    /\ wOut = [done |-> FALSE, err |-> FALSE, fs |-> FsBare, new |-> {},
               progress |-> 0, countErr |-> FALSE, total |-> 0]

ProgressIdle ==
    bar = [total |-> 0, processed |-> 0, lastUpdate |-> -1, redraws |-> 0]

MainIdle ==
    /\ pc = "idle"
    /\ exitOnError = FALSE
    /\ nonInteractive = FALSE
    /\ destOK = FALSE
    /\ rawConfig = RawConfig(LimitMinBackupsToKeep, LimitMinFreeSpace, <<>>)
    /\ app = [BkpConfig |-> rawConfig, bkpDestFullPath |-> <<>>]
    /\ exitCode = -1
    /\ probe = NotProbed
    /\ totalCount = 0
    /\ results = <<>>
    /\ failedCount = 0
    /\ successCount = 0
    /\ runErr = FALSE
    /\ destFs = FsBare
    /\ created = {}
    /\ counted = {}
    /\ copied = {}
    /\ prompt = NoPrompt
    /\ cleanupRan = FALSE
    /\ deleteTried = {}
    /\ removed = {}
    /\ step = "none"
    /\ failedItems = {}

Init ==
    /\ pc = "init"
    /\ exitOnError \in BOOLEAN
    /\ nonInteractive \in BOOLEAN
    /\ destOK \in BOOLEAN
    /\ rawConfig = RawConfig(LimitMinBackupsToKeep, LimitMinFreeSpace, <<>>)
    /\ app = [BkpConfig |-> rawConfig, bkpDestFullPath |-> <<>>]
    /\ exitCode = -1
    /\ probe = NotProbed
    /\ totalCount = 0
    /\ results = <<>>
    /\ failedCount = 0
    /\ successCount = 0
    /\ runErr = FALSE
    /\ destFs \in FsInits
    /\ created = {}
    /\ counted = {}
    /\ copied = {}
    /\ prompt = NoPrompt
    /\ cleanupRan = FALSE
    /\ deleteTried = {}
    /\ removed = {}
    /\ step = "none"
    /\ failedItems = {}
    /\ ValidateIdle
    /\ MatchIdle
    /\ CleanupIdle
    /\ CopyIdle
    /\ ProgressIdle

\* main up to the review: NewBackupApp with -bkp-dest given, which stats the
\* destination, then reads the configuration file over the defaults of
\* NewConfig and validates it
NewBackupApp ==
    /\ pc = "init"
    /\ step' = "NewBackupApp"
    /\ IF ~destOK
       THEN exitApp(1) /\ UNCHANGED <<rawConfig, app>>
       ELSE \E c \in RawConfigs :
               LET v == validate(c)
               IN  /\ rawConfig' = c
                   /\ IF v.err
                      THEN exitApp(1) /\ UNCHANGED app
                      ELSE /\ app' = [BkpConfig |-> v.cfg,
                                      bkpDestFullPath |-> Join(BkpDest, v.cfg.BkpDestDir)]
                           /\ pc' = "review"
                           /\ UNCHANGED exitCode
    /\ UNCHANGED <<exitOnError, nonInteractive, destOK, probe, runErr,
                   prompt, runVars, otherVars>>

\* startConfirmed that takes any answer as a confirmation
startConfirmed_Always(typed) == TRUE

\* the start prompt of reviewBackupConfig: TRUE when the backup may start
startConfirmed(typed) == Normalize(Scanln(typed)) = AnswerYes

\* reviewBackupConfig and main's handling of its result
reviewBackupConfig ==
    /\ pc = "review"
    /\ step' = "reviewBackupConfig"
    /\ \E p \in FreeSpaceProbes :
          /\ probe' = p
          /\ IF ~p.ok \/ U64Less(p.avail, app.BkpConfig.minFreeSpaceParsed)
             THEN exitApp(1) /\ UNCHANGED prompt
             ELSE IF Len(app.BkpConfig.BkpItems) = 0
             THEN exitApp(0) /\ UNCHANGED prompt
             ELSE IF nonInteractive
             THEN pc' = "run" /\ UNCHANGED <<exitCode, prompt>>
             ELSE \E typed \in TypedLines :
                     /\ prompt' = [at |-> "start", typed |-> typed]
                     /\ IF ~startConfirmed(typed)
                        THEN exitApp(0)
                        ELSE pc' = "run" /\ UNCHANGED exitCode
    /\ UNCHANGED <<exitOnError, nonInteractive, destOK, rawConfig, app, runErr,
                   runVars, otherVars>>

\* runBackup up to the item loop: the run directory is named and created
runBackupStart ==
    /\ pc = "run"
    /\ step' = "runBackupStart"
    /\ \E timestamp \in Timestamps, mkdirFails \in BOOLEAN :
          LET full == Join(app.bkpDestFullPath, RunDirName(timestamp))
              md   == MkdirAll(destFs, full)
          IN  /\ app' = [app EXCEPT !.bkpDestFullPath = full]
              /\ IF mkdirFails \/ ~md.ok
                 THEN /\ runErr' = TRUE
                      /\ exitApp(2)
                      /\ UNCHANGED <<destFs, created>>
                 ELSE /\ destFs' = md.fs
                      /\ created' = created \cup {[path |-> q, item |-> 0] : q \in md.new}
                      /\ pc' = "loop"
                      /\ UNCHANGED <<runErr, exitCode>>
    /\ UNCHANGED <<exitOnError, nonInteractive, destOK, rawConfig, probe, prompt,
                   totalCount, results, failedCount, successCount, counted, copied,
                   cleanupRan, deleteTried, removed, failedItems, otherVars>>

\* stopOnError comparing the answer as typed, not lower-cased
stopOnError_CaseSensitive(typed) ==
    /\ exitOnError
    /\ nonInteractive \/ TrimSpace(ReadString(typed)) # AnswerNo

\* stopOnError with the policy dropped: a failure never ends the run
stopOnError_Never(typed) == FALSE

\* stopOnError with the flag ignored: a failure ends the run as if
\* exit-on-error were always set
stopOnError_FlagIgnored(typed) ==
    nonInteractive \/ Normalize(ReadString(typed)) # AnswerNo

\* the exit-on-error policy after a failed item: TRUE when runBackup returns
\* the error, given the line typed at the prompt (if one is issued)
stopOnError(typed) ==
    /\ exitOnError
    /\ nonInteractive \/ Normalize(ReadString(typed)) # AnswerNo

\* appendResult putting the new result before the earlier ones
appendResult_AtFront(list, item, err) ==
    <<[Item |-> item, Success |-> ~err]>> \o list

\* appendResult writing the new result over the last one
appendResult_OverLast(list, item, err) ==
    IF list = <<>>
    THEN <<[Item |-> item, Success |-> ~err]>>
    ELSE [list EXCEPT ![Len(list)] = [Item |-> item, Success |-> ~err]]

\* results = append(results, result)
appendResult(list, item, err) ==
    Append(list, [Item |-> item, Success |-> ~err])

\* returnError that leaves the loop only (break): what follows the loop runs
returnError_Break == pc' = "cleanup" /\ UNCHANGED exitCode

\* return fmt.Errorf("backup stopped ...") in the loop: runBackup is over,
\* nothing after the loop runs, and main ends the process with code 2
returnError == exitApp(2)

\* the end of an iteration: the result is appended, the counters move, and
\* after a failure the exit-on-error policy decides whether the loop goes on
recordResult(i, item, err) ==
    /\ totalCount' = i
    /\ counted' = counted \cup {i}
    /\ results' = appendResult(results, item, err)
    /\ failedCount' = IF err THEN failedCount + 1 ELSE failedCount
    /\ successCount' = IF err THEN successCount ELSE successCount + 1
    /\ \E typed \in TypedAt(err /\ exitOnError /\ ~nonInteractive) :
          /\ prompt' = IF err /\ exitOnError /\ ~nonInteractive
                       THEN [at |-> "error", typed |-> typed]
                       ELSE prompt
          /\ runErr' = (err /\ stopOnError(typed))
          /\ IF err /\ stopOnError(typed)
             THEN returnError
             ELSE /\ pc' = IF i = Len(app.BkpConfig.BkpItems) THEN "cleanup" ELSE "loop"
                  /\ UNCHANGED exitCode

\* countFailed that passes over the item: nothing is recorded, the loop goes on
countFailed_Unrecorded(i, item) ==
    /\ totalCount' = i
    /\ counted' = counted \cup {i}
    /\ failedItems' = failedItems \cup {i}
    /\ pc' = IF i = Len(app.BkpConfig.BkpItems) THEN "cleanup" ELSE "loop"
    /\ UNCHANGED <<results, failedCount, successCount, prompt, runErr, exitCode,
                   copied, destFs, created>>

\* the branch of the loop taken when countTotalItems returned an error
countFailed(i, item) ==
    /\ recordResult(i, item, TRUE)
    /\ failedItems' = failedItems \cup {i}
    /\ UNCHANGED <<copied, destFs, created>>

\* one iteration of the item loop of runBackup
ProcessItem ==
    /\ pc = "loop"
    /\ step' = "ProcessItem"
    /\ totalCount < Len(app.BkpConfig.BkpItems)
    /\ LET i    == totalCount + 1
           item == app.BkpConfig.BkpItems[i]
       IN  \E cf \in CountFaults :
              IF countTotalItems(item, cf).err
              THEN countFailed(i, item)
              ELSE \E pf \in CopyFaults :
                      LET bi == backupItem(destFs, item, app.bkpDestFullPath, pf)
                      IN  /\ recordResult(i, item, bi.err)
                          /\ failedItems' = IF bi.err THEN failedItems \cup {i}
                                                      ELSE failedItems
                          /\ copied' = copied \cup {i}
                          /\ destFs' = bi.fs
                          /\ created' = created \cup
                                          {[path |-> q, item |-> i] : q \in bi.new}
    /\ UNCHANGED <<exitOnError, nonInteractive, destOK, rawConfig, app, probe,
                   cleanupRan, deleteTried, removed, otherVars>>

\* cleanupWanted without the check of failedCount: cleanup after every run
cleanupWanted_Always(typed) == TRUE

\* the decision about cleanup after the loop: TRUE when cleanupOldBackups is called
cleanupWanted(typed) ==
    \/ failedCount = 0
    \/ ~nonInteractive /\ Normalize(ReadString(typed)) = AnswerYes

\* runBackupReturn always nil
runBackupReturn_Nil(failed) == FALSE

\* what runBackup returns after the summary: TRUE for an error
runBackupReturn(failed) == failed > 0

\* the directories cleanup removes when no removal fails
Removable ==
    cleanupOldBackups(destFs, app.bkpDestFullPath, app.BkpConfig.BackupsToKeep,
                      TRUE, {}).tried

\* runBackup after the item loop: cleanup, summary, the returned error; and
\* main's exit with it
FinishRun ==
    /\ pc = "cleanup"
    /\ step' = "FinishRun"
    /\ \E typed \in TypedAt(failedCount # 0 /\ ~nonInteractive) :
          /\ prompt' = IF failedCount # 0 /\ ~nonInteractive
                       THEN [at |-> "cleanup", typed |-> typed]
                       ELSE prompt
          /\ IF cleanupWanted(typed)
             THEN \E readOK \in BOOLEAN, failing \in SUBSET Removable :
                     LET cl == cleanupOldBackups(destFs, app.bkpDestFullPath,
                                                 app.BkpConfig.BackupsToKeep,
                                                 readOK, failing)
                     IN  /\ cleanupRan' = TRUE
                         /\ destFs' = cl.fs
                         /\ deleteTried' = cl.tried
                         /\ removed' = cl.removed
             ELSE UNCHANGED <<cleanupRan, destFs, deleteTried, removed>>
    /\ runErr' = runBackupReturn(failedCount)
    /\ exitApp(IF runBackupReturn(failedCount) THEN 2 ELSE 0)
    /\ UNCHANGED <<exitOnError, nonInteractive, destOK, rawConfig, app, probe,
                   totalCount, results, failedCount, successCount, created,
                   counted, copied, failedItems, otherVars>>

Next ==
    \/ NewBackupApp
    \/ reviewBackupConfig
    \/ runBackupStart
    \/ ProcessItem
    \/ FinishRun

Spec == Init /\ [][Next]_vars

(***************************************************************************)
(* Config.validate on its own                                              *)
(***************************************************************************)
MaxKeep == 3

\* min_free_space strings: below, at and above the floor, in both units, in
\* upper case, malformed ones, 2^44 mb (N * 2^20 wraps to 0) and 2^63 mb
\* (beyond int64)
ValidateMinFreeSpace ==
    { <<"0", "m", "b">>, <<"5", "m", "b">>, <<"9", "m", "b">>,
      <<"1", "0", "m", "b">>, <<"1", "1", "m", "b">>,
      <<"1", "g", "b">>, <<"1", "0", "g", "b">>,
      <<"1", "0", "M", "B">>, <<"5", "M", "b">>,
      <<>>, <<"m", "b">>, <<"a", "b", "c">>, <<"1", "0", "k", "b">>,
      <<" ", "1", "0", "m", "b">>, <<"1", "0", " ", "m", "b">>,
      <<"1", "7", "5", "9", "2", "1", "8", "6", "0", "4", "4", "4", "1", "6", "m", "b">>,
      <<"9", "2", "2", "3", "3", "7", "2", "0", "3", "6", "8", "5", "4", "7", "7",
        "5", "8", "0", "8", "m", "b">> }

ValidateInputs ==
    {RawConfig(k, m, it) :
        k \in 0..MaxKeep, m \in ValidateMinFreeSpace, it \in {<<>>, <<ItemDir, ItemFile>>}}

InitValidate ==
    /\ MainIdle
    /\ MatchIdle
    /\ CleanupIdle
    /\ CopyIdle
    /\ ProgressIdle
    /\ vIn \in ValidateInputs
    /\ vOut = [done |-> FALSE, err |-> FALSE, cfg |-> vIn]

\* loadConfig calls c.validate()
Validate ==
    /\ ~vOut.done
    /\ LET v == validate(vIn)
       IN  vOut' = [done |-> TRUE, err |-> v.err, cfg |-> v.cfg]
    /\ UNCHANGED <<vIn, mainVars, matchVars, cleanupVars, copyVars, progressVars>>

SpecValidate == InitValidate /\ [][Validate]_vars

(***************************************************************************)
(* shouldInclude on its own                                                *)
(***************************************************************************)
MaxPatterns == 2

\* relative paths as filepath.Rel gives them
MatchPaths ==
    { <<"a">>, <<"b">>, <<"a", "b">>, <<"a", "/", "b">>, <<"a", "/", "a">>,
      <<"a", "b", "/", "a">>, <<"b", "/", "a", "/", "b">> }

\* a directory name, globs with "*" and "?", a glob over two elements
MatchPatterns == { <<"a">>, <<"a", "*">>, <<"?">>, <<"*", "/", "b">> }

PatternLists == UNION {[1..n -> MatchPatterns] : n \in 0..MaxPatterns}

InitMatch ==
    /\ MainIdle
    /\ ValidateIdle
    /\ CleanupIdle
    /\ CopyIdle
    /\ ProgressIdle
    /\ mIn \in [path : MatchPaths, include : PatternLists, exclude : PatternLists]
    /\ mOut = [done |-> FALSE, result |-> FALSE]

\* the walks call app.shouldInclude(relPath, include, exclude)
ShouldInclude ==
    /\ ~mOut.done
    /\ mOut' = [done |-> TRUE,
                result |-> shouldInclude(mIn.path, mIn.include, mIn.exclude)]
    /\ UNCHANGED <<mIn, mainVars, validateVars, cleanupVars, copyVars, progressVars>>

SpecMatch == InitMatch /\ [][ShouldInclude]_vars

(***************************************************************************)
(* cleanupOldBackups on its own                                            *)
(***************************************************************************)
\* names an entry of the backup root may have: run directories (one of them
\* sorting before a shorter number), and names that only resemble them
RunNames ==
    { RunDirName(<<"1">>), RunDirName(<<"1", "0">>), RunDirName(<<"2">>),
      RunDirName(<<"3">>) }

OtherNames == { Prefix, Prefix \o <<"x">> }

InRoot(name) == BackupRoot \o <<Separator>> \o name

\* a directory named like a run directory that lies beside the backup
\* root, not in it
OutsideRun == BkpDest \o <<Separator>> \o RunDirName(<<"0">>)

\* a backup root holding the run directories of rs (each with a file in it),
\* the directories of ds (each with a directory named like a run directory
\* in it) and the files of fls; beside the root, OutsideRun with a file
RootFs(rs, ds, fls) ==
    [dirs  |-> {<<"/">>, BkpDest, BackupRoot, OutsideRun}
                  \cup {InRoot(n) : n \in rs \cup ds}
                  \cup {InRoot(n) \o <<Separator>> \o RunDirName(<<"0">>) : n \in ds},
     files |-> {InRoot(n) \o <<"/", "f">> : n \in rs} \cup {InRoot(n) : n \in fls}
                  \cup {OutsideRun \o <<"/", "f">>}]

CleanupInputs ==
    {[fs |-> RootFs(rs, ds, fls), run |-> InRoot(run), keep |-> k] :
        rs \in (SUBSET RunNames) \ {{}}, run \in RunNames,
        ds \in SUBSET OtherNames, fls \in SUBSET {RunDirName(<<"0">>)},
        k \in 1..MaxKeep}

InitCleanup ==
    /\ MainIdle
    /\ ValidateIdle
    /\ MatchIdle
    /\ CopyIdle
    /\ ProgressIdle
    /\ cIn \in {c \in CleanupInputs : c.run \in c.fs.dirs}
    /\ cOut = [done |-> FALSE, fs |-> cIn.fs, tried |-> {}, removed |-> {}, failing |-> {}]

\* runBackup calls app.cleanupOldBackups(); os.RemoveAll fails on the paths of failing
Cleanup ==
    /\ ~cOut.done
    /\ \E failing \in SUBSET cleanupOldBackups(cIn.fs, cIn.run, cIn.keep, TRUE, {}).tried :
          LET cl == cleanupOldBackups(cIn.fs, cIn.run, cIn.keep, TRUE, failing)
          IN  cOut' = [done |-> TRUE, fs |-> cl.fs, tried |-> cl.tried,
                       removed |-> cl.removed, failing |-> failing]
    /\ UNCHANGED <<cIn, mainVars, validateVars, matchVars, copyVars, progressVars>>

SpecCleanup == InitCleanup /\ [][Cleanup]_vars

(***************************************************************************)
(* backupItem on one directory item, with include and exclude patterns     *)
(***************************************************************************)
\* the run directory the item is copied into, and the destination before the copy
CopyRunDir == BackupRoot \o <<"/", "r">>

CopyFs == [dirs |-> {<<"/">>, BkpDest, BackupRoot, CopyRunDir}, files |-> {}]

\* include and exclude patterns of the item: literal names and globs
CopyPatterns == { <<"a">>, <<"t">>, <<"t", "*">>, <<"?">> }

CopyPatternLists ==
    UNION {[1..n -> CopyPatterns] : n \in 0..MaxPatterns}

\* no fault; the creation of directory t (entry 3 of the walk) fails; the
\* walk reports an error on t/a; the walk reports a protected path on the
\* file a or on the directory t; writing at the item's destination fails
CopyInputFaults ==
    { NoFault, [at |-> 3, kind |-> "io"], [at |-> 4, kind |-> "walk"],
      [at |-> 1, kind |-> "protected"], [at |-> 3, kind |-> "protected"],
      [at |-> 0, kind |-> "io"] }

CopyItem(source, include, exclude) ==
    [Source |-> source, Destination |-> <<"d">>,
     Include |-> include, Exclude |-> exclude]

CopyDest == Join(CopyRunDir, <<"d">>)

InitCopy ==
    /\ MainIdle
    /\ ValidateIdle
    /\ MatchIdle
    /\ CleanupIdle
    /\ ProgressIdle
    /\ wIn \in [source : {SrcDir, SrcFile}, include : CopyPatternLists,
                 exclude : CopyPatternLists, fault : CopyInputFaults]
    /\ wOut = [done |-> FALSE, err |-> FALSE, fs |-> CopyFs, new |-> {},
               progress |-> 0, countErr |-> FALSE, total |-> 0]

\* runBackup calls app.countTotalItems(item) and then
\* app.backupItem(item, progressCb), on the same source tree
BackupItem ==
    /\ ~wOut.done
    /\ LET item == CopyItem(wIn.source, wIn.include, wIn.exclude)
           ct   == countTotalItems(item, wIn.fault)
           bi   == backupItem(CopyFs, item, CopyRunDir, wIn.fault)
       IN  wOut' = [done |-> TRUE, err |-> bi.err, fs |-> bi.fs, new |-> bi.new,
                    progress |-> bi.progress, countErr |-> ct.err, total |-> ct.total]
    /\ UNCHANGED <<wIn, mainVars, validateVars, matchVars, cleanupVars, progressVars>>

SpecCopy == InitCopy /\ [][BackupItem]_vars

(***************************************************************************)
(* The progress callback of runBackup during the copy of one item          *)
(***************************************************************************)
\* the calls of the callback that are followed: the copy walk makes one per
\* entry it copies, whatever the counting walk returned before it
MaxProgressCalls == 125

\* the totals the counting walk returned: none, few, one hundred, more
ProgressTotals == {0, 1, 3, 100, 120}

\* int(float64(processedItems) * 100 / float64(totalItems)) for totalItems > 0
Percentage(processed, total) == (processed * 100) \div total

\* progressCb that redraws at every call
progressCb_AlwaysRedraws(b) ==
    IF b.total > 0
    THEN [b EXCEPT !.processed = @ + 1,
                   !.lastUpdate = Percentage(b.processed + 1, b.total),
                   !.redraws = @ + 1]
    ELSE [b EXCEPT !.processed = @ + 1]

\* progressCb: processedItems++, and the indicator is drawn again when the
\* percentage is above the last one drawn
progressCb(b) ==
    LET processedItems == b.processed + 1
    IN  IF b.total > 0 /\ Percentage(processedItems, b.total) > b.lastUpdate
        THEN [b EXCEPT !.processed = processedItems,
                       !.lastUpdate = Percentage(processedItems, b.total),
                       !.redraws = @ + 1]
        ELSE [b EXCEPT !.processed = processedItems]

InitProgress ==
    /\ MainIdle
    /\ ValidateIdle
    /\ MatchIdle
    /\ CleanupIdle
    /\ CopyIdle
    /\ \E total \in ProgressTotals :
          bar = [total |-> total, processed |-> 0, lastUpdate |-> -1, redraws |-> 0]

\* the copy walk calls progressCb()
ProgressCb ==
    /\ bar.processed < MaxProgressCalls
    /\ bar' = progressCb(bar)
    /\ UNCHANGED <<mainVars, validateVars, matchVars, cleanupVars, copyVars>>

SpecProgress == InitProgress /\ [][ProgressCb]_vars

(***************************************************************************)
(* Properties                                                              *)
(***************************************************************************)
Items == app.BkpConfig.BkpItems

\* the minimum the retention policy asks for: the configured size, raised to
\* the floor when it is below it
RequiredMinimum(c) ==
    LET parsed == parseDiskSize(c.MinFreeSpace).v
    IN  IF U64Less(parsed, U64(LimitMinFreeSpaceParsed))
        THEN U64(LimitMinFreeSpaceParsed)
        ELSE parsed

\* a fatal setup condition: the destination is inaccessible, min_free_space
\* is malformed, or the free space is below the required minimum
FatalSetup ==
    /\ step # "none"
    /\ \/ ~destOK
       \/ validate(rawConfig).err
       \/ probe.called /\ probe.ok /\ U64Less(probe.avail, RequiredMinimum(rawConfig))

\* C1: whenever a fatal setup condition holds, the program stops before the
\* run directory is created: nothing is created under the destination, no
\* item is processed and no cleanup runs.
C1_FatalSetupStopsBeforeRunDir ==
    FatalSetup =>
        /\ created = {}
        /\ totalCount = 0 /\ counted = {} /\ results = <<>>
        /\ ~cleanupRan

\* C2: with exit-on-error set and non-interactive, once an item has failed
\* the run has ended with an error; the items after the failed one were
\* never counted or copied, the result list holds one entry per item up to
\* the failed one, and the failed one is the last and only failure.
C2_AbortOnFirstFailure ==
    (exitOnError /\ nonInteractive /\ failedItems # {}) =>
        LET k == Min(failedItems)
        IN  /\ pc = "exit" /\ runErr /\ exitCode = 2
            /\ step = "ProcessItem"
            /\ counted = 1..k
            /\ copied \subseteq 1..k
            /\ \A c \in created : c.item <= k
            /\ Len(results) = k
            /\ ~results[k].Success
            /\ \A j \in 1..(k - 1) : results[j].Success
            /\ \A j \in 1..k : results[j].Item = Items[j]

\* C2 happens: the first item of two fails and the second is never attempted
C2_Witness ==
    /\ exitOnError /\ nonInteractive
    /\ pc = "exit"
    /\ failedItems = {1}
    /\ Len(Items) = 2
    /\ counted = {1}

\* C3: with exit-on-error off, every item is attempted: when the loop is
\* over the result list has one entry per configured item, and the entries
\* marked failed are those of the items that failed, as many as failedCount.
C3_ContinueOnFailure ==
    ~exitOnError =>
        /\ step = "ProcessItem" => pc \in {"loop", "cleanup"}
        /\ pc = "loop" => totalCount < Len(Items)
        /\ (pc = "cleanup" \/ step = "FinishRun") =>
              /\ counted = 1..Len(Items)
              /\ Len(results) = Len(Items)
              /\ {j \in 1..Len(results) : ~results[j].Success} = failedItems
              /\ failedCount = Cardinality(failedItems)

\* C3 happens: the first of two items fails, the second is copied, the loop ends
C3_Witness ==
    /\ ~exitOnError
    /\ pc = "cleanup"
    /\ Len(Items) = 2
    /\ failedItems = {1}
    /\ copied = {2}
    /\ Len(results) = 2

\* the answer typed at a prompt as the operator meant it: without the white
\* space around it, in lower case
Meant(typed) == TrimSpace(ToLower(typed))

\* the run went on after the prompt that followed a failed item
WentOnAfterErrorPrompt == prompt.at = "error" /\ pc # "exit"

\* C4 as stated: after a failed item, interactive and with exit-on-error,
\* the run goes on only if the line typed is exactly "no".
C4_Original_ExactlyNo ==
    WentOnAfterErrorPrompt => prompt.typed = AnswerNo

\* C4, amended: a prompt follows a failed item only when exit-on-error is set
\* and the run is interactive, and the run goes on exactly when the answer is
\* "no" once trimmed and lower-cased; any other answer ends the run with the error.
C4_ContinueOnlyOnNo ==
    prompt.at = "error" =>
        /\ exitOnError /\ ~nonInteractive /\ failedItems # {}
        /\ IF Meant(prompt.typed) = AnswerNo
           THEN pc \in {"loop", "cleanup"} /\ ~runErr /\ exitCode = -1
           ELSE pc = "exit" /\ runErr /\ exitCode = 2 /\ step = "ProcessItem"

\* C4 happens: an item failed, the operator typed " No", the loop goes on
C4_Witness ==
    /\ prompt = [at |-> "error", typed |-> <<" ", "N", "o">>]
    /\ pc = "loop"
    /\ failedItems = {1}

\* C5 as stated: after the loop, cleanup is called iff no item failed, or
\* the run is interactive and the line typed is exactly "yes".
C5_Original_ExactlyYes ==
    step = "FinishRun" =>
        (cleanupRan <=>
            \/ failedCount = 0
            \/ ~nonInteractive /\ prompt.at = "cleanup" /\ prompt.typed = AnswerYes)

\* C5, amended: cleanup is called only after the loop, and then iff no item
\* failed, or some item failed, the run is interactive and the answer to the
\* cleanup prompt is "yes" once trimmed and lower-cased; non-interactive, a
\* run with a failed item removes nothing.
C5_CleanupDecision ==
    /\ step # "FinishRun" => ~cleanupRan /\ deleteTried = {} /\ removed = {}
    /\ step = "FinishRun" =>
          (cleanupRan <=>
              \/ failedItems = {}
              \/ /\ ~nonInteractive
                 /\ prompt.at = "cleanup"
                 /\ Meant(prompt.typed) = AnswerYes)
    /\ (nonInteractive /\ failedItems # {}) =>
          /\ ~cleanupRan /\ deleteTried = {} /\ removed = {}
          /\ OldRun1 \in destFs.dirs /\ OldRun3 \in destFs.dirs

\* C5 happens: an item failed, the operator typed "YES", old backups are removed
C5_Witness ==
    /\ step = "FinishRun"
    /\ failedItems # {}
    /\ prompt = [at |-> "cleanup", typed |-> <<"Y", "E", "S">>]
    /\ cleanupRan
    /\ removed # {}

\* the run directories of a backup root: its subdirectories named Prefix-...
RunDirsIn(dirfs, root) ==
    {d \in dirfs.dirs : IsChildOf(d, root) /\ HasPrefix(Base(d), Prefix \o <<"-">>)}

\* the oldest run directories beyond keep: the set all of whose names are
\* lexically smaller than those of the keep others
OldestBeyond(dirfs, root, keep) ==
    LET all == RunDirsIn(dirfs, root)
    IN  IF Cardinality(all) <= keep THEN {}
        ELSE CHOOSE D \in SUBSET all :
                /\ Cardinality(D) = Cardinality(all) - keep
                /\ \A d \in D, e \in all \ D : StrLess(Base(d), Base(e))

\* C6: when no removal fails, cleanup removes nothing if there are at most
\* keep run directories, and otherwise exactly the n - keep ones with the
\* lexically smallest names; the keep greatest stay with their content.
C6_CleanupRemovesOldest ==
    (cOut.done /\ cOut.failing = {}) =>
        LET all  == RunDirsIn(cIn.fs, BackupRoot)
            gone == OldestBeyond(cIn.fs, BackupRoot, cIn.keep)
        IN  /\ Cardinality(all) <= cIn.keep => cOut.fs = cIn.fs /\ cOut.tried = {}
            /\ cOut.removed = gone
            /\ Cardinality(all) > cIn.keep => Cardinality(gone) = Cardinality(all) - cIn.keep
            /\ RunDirsIn(cOut.fs, BackupRoot) = all \ gone
            /\ \A d \in all \ gone :
                  \A q \in cIn.fs.dirs \cup cIn.fs.files :
                      IsUnder(q, d) => q \in cOut.fs.dirs \cup cOut.fs.files

\* C6 happens: four run directories, keep = 2: smbkp-1 and smbkp-10 are removed
C6_Witness ==
    /\ cOut.done /\ cOut.failing = {}
    /\ cIn.keep = 2
    /\ Cardinality(RunDirsIn(cIn.fs, BackupRoot)) = 4
    /\ cOut.removed = {InRoot(RunDirName(<<"1">>)), InRoot(RunDirName(<<"1", "0">>))}

\* C7: a removal that fails stops neither the later removals nor the run:
\* cleanup tries every directory it selected, whichever removals fail, and
\* runBackup returns nil (exit code 0) when no item failed.
C7_CleanupFailureIgnored ==
    [][(pc = "cleanup" /\ cleanupRan') =>
          /\ deleteTried' \in {{}, OldestBeyond(destFs, Dir(app.bkpDestFullPath),
                                               app.BkpConfig.BackupsToKeep)}
          /\ removed' \subseteq deleteTried'
          /\ destFs'.dirs = {d \in destFs.dirs : \A r \in removed' : ~IsUnder(d, r)}
          /\ failedItems = {} => ~runErr' /\ exitCode' = 0]_vars

\* C7 happens: no item failed, the removal of the oldest directory failed,
\* the next one was removed all the same, and the run succeeded
C7_Witness ==
    /\ step = "FinishRun"
    /\ failedItems = {}
    /\ exitCode = 0
    /\ \E d \in deleteTried \ removed : \E e \in removed : StrLess(Base(d), Base(e))

\* C8 as stated: after a successful validation backupsToKeep is at least 1
\* and the parsed minimum free space is at least 10485760 bytes.
C8_FloorsEnforced ==
    (vOut.done /\ ~vOut.err) =>
        /\ vOut.cfg.BackupsToKeep >= LimitMinBackupsToKeep
        /\ ~U64Less(vOut.cfg.minFreeSpaceParsed, U64(LimitMinFreeSpaceParsed))

\* C9 as stated: whatever an item creates lies under the run directory.
C9_ItemsWriteUnderRunDir ==
    \A c \in created : c.item > 0 => IsUnder(c.path, app.bkpDestFullPath)

\* a pattern of the list matches the path, as a glob on the whole path or
\* the path lying under pattern + separator
HitBy(list, path) ==
    \E i \in 1..Len(list) :
        Match(list[i], path) \/ HasPrefix(path, list[i] \o <<Separator>>)

\* C10: a path that an exclude pattern matches is not included, whatever
\* the include list is, even when an include pattern matches it directly.
C10_ExcludeWins ==
    (mOut.done /\ HitBy(mIn.exclude, mIn.path)) => ~mOut.result

\* C10 happens: an include pattern and an exclude pattern both match the
\* path as globs, and the path is left out
C10_Witness ==
    /\ mOut.done /\ ~mOut.result
    /\ \E i \in 1..Len(mIn.include) : Match(mIn.include[i], mIn.path)
    /\ \E i \in 1..Len(mIn.exclude) : Match(mIn.exclude[i], mIn.path)

\* the entries of the source tree of the item
TreeRels == {SrcTree[i].rel : i \in 1..Len(SrcTree)}

TreeDirs == {SrcTree[i].rel : i \in {j \in 1..Len(SrcTree) : SrcTree[j].kind = "dir"}}

\* r lies below directory d of the tree
Below(r, d) == HasPrefix(r, d \o <<Separator>>)

\* the path of the copy of entry r
CopyOf(r) == CopyDest \o <<Separator>> \o r

\* the relative paths the copy created under the item's destination
CopiedRels == {r \in TreeRels : CopyOf(r) \in wOut.new}

\* C11 as stated: when a directory matches an include pattern, by a glob
\* too, every entry below it is copied unless an exclude pattern matches
\* the entry or the directory.
C11_DescendantsOfIncludedDir ==
    (wOut.done /\ ~wOut.err /\ wIn.source = SrcDir /\ wIn.fault.kind # "protected") =>
        \A d \in TreeDirs, r \in TreeRels :
            ( /\ Below(r, d)
              /\ \E i \in 1..Len(wIn.include) : Match(wIn.include[i], d)
              /\ ~HitBy(wIn.exclude, d)
              /\ ~HitBy(wIn.exclude, r) )
            => CopyOf(r) \in wOut.fs.files \cup wOut.fs.dirs

\* C12: when a directory of the source tree matches an exclude pattern,
\* neither it nor anything below it exists in the destination after the
\* copy, whatever the include patterns are and however the copy ended.
C12_ExcludedDirPruned ==
    (wOut.done /\ wIn.source = SrcDir) =>
        \A d \in TreeDirs :
            HitBy(wIn.exclude, d) =>
                \A q \in wOut.fs.files \cup wOut.fs.dirs : ~IsUnder(q, CopyOf(d))

\* C12 happens: an include pattern covers t/a, an exclude glob matches the
\* directory t, the copy ends without error and t is not in the destination
C12_Witness ==
    /\ wOut.done /\ ~wOut.err /\ wIn.source = SrcDir
    /\ HitBy(wIn.include, <<"t", "/", "a">>)
    /\ \E i \in 1..Len(wIn.exclude) :
          wIn.exclude[i] # <<"t">> /\ Match(wIn.exclude[i], <<"t">>)
    /\ ~HitBy(wIn.exclude, <<"t", "/", "a">>)
    /\ CopyOf(<<"t">>) \notin wOut.fs.dirs

\* an entry and every directory above it in the tree satisfy shouldInclude
PassesWalk(r) ==
    /\ shouldInclude(r, wIn.include, wIn.exclude)
    /\ \A d \in TreeDirs : Below(r, d) => shouldInclude(d, wIn.include, wIn.exclude)

\* C13: after a copy without error, the relative paths created under the
\* item's destination are exactly the source entries that satisfy
\* shouldInclude together with every directory above them; with include "a"
\* and exclude "t*" the destination holds a alone.
C13_CopiedSetIsFiltered ==
    (wOut.done /\ ~wOut.err /\ wIn.source = SrcDir /\ wIn.fault.kind # "protected") =>
        /\ CopiedRels = {r \in TreeRels : PassesWalk(r)}
        /\ {q \in wOut.fs.files \cup wOut.fs.dirs : IsUnder(q, CopyDest) /\ q # CopyDest}
              = {CopyOf(r) : r \in CopiedRels}
        /\ (wIn.include = << <<"a">> >> /\ wIn.exclude = << <<"t", "*">> >>)
              => CopiedRels = { <<"a">> }

\* C13 happens: include "a", exclude "t*": the copy holds a alone
C13_Witness ==
    /\ wOut.done /\ ~wOut.err /\ wIn.source = SrcDir /\ wIn.fault = NoFault
    /\ wIn.include = << <<"a">> >> /\ wIn.exclude = << <<"t", "*">> >>
    /\ wOut.new = {CopyDest, CopyOf(<<"a">>)}

\* C14: with no include and no exclude pattern every path is included.
C14_NoPatternsIncludesAll ==
    (mOut.done /\ mIn.include = <<>> /\ mIn.exclude = <<>>) => mOut.result

\* C14 happens: a path in a subdirectory, both lists empty, the path is included
C14_Witness ==
    /\ mOut.done /\ mOut.result
    /\ mIn.include = <<>> /\ mIn.exclude = <<>>
    /\ mIn.path = <<"a", "b", "/", "a">>

\* the segments of a relative path: the names between the separators
RECURSIVE Segments(_)
Segments(path) ==
    LET seps == {i \in 1..Len(path) : path[i] = Separator}
    IN  IF seps = {} THEN <<path>>
        ELSE <<SubSeq(path, 1, Min(seps) - 1)>>
                 \o Segments(SubSeq(path, Min(seps) + 1, Len(path)))

\* the pattern contains no wildcard
IsLiteral(pattern) == \A i \in 1..Len(pattern) : pattern[i] \notin {"*", "?"}

\* the path is the one the literal pattern names, or lies below it: the
\* segments of the pattern are the first segments of the path
SegmentsCover(pattern, path) ==
    LET ps == Segments(pattern)
        qs == Segments(path)
    IN  Len(ps) <= Len(qs) /\ \A i \in 1..Len(ps) : ps[i] = qs[i]

\* C19: literal patterns match on whole path segments: with literal include
\* and exclude patterns a path is included exactly when some include pattern
\* (if there is one) names it or a directory above it and no exclude pattern
\* does; a path whose first segment only starts with the pattern is not matched.
C19_SegmentBoundary ==
    ( /\ mOut.done
      /\ \A i \in 1..Len(mIn.include) : IsLiteral(mIn.include[i])
      /\ \A i \in 1..Len(mIn.exclude) : IsLiteral(mIn.exclude[i]) )
    => ( mOut.result <=>
           /\ Len(mIn.include) = 0
                 \/ \E i \in 1..Len(mIn.include) : SegmentsCover(mIn.include[i], mIn.path)
           /\ ~\E i \in 1..Len(mIn.exclude) : SegmentsCover(mIn.exclude[i], mIn.path) )

\* C19 happens: the exclude pattern a, the path ab/a, whose first segment
\* starts with a: the path is included
C19_Witness ==
    /\ mOut.done /\ mOut.result
    /\ mIn.include = <<>> /\ mIn.exclude = << <<"a">> >>
    /\ mIn.path = <<"a", "b", "/", "a">>

\* C15: items are processed in configuration order and the result list
\* keeps that order: at every moment of a run, completed or aborted, the
\* items attempted are the first ones of the configuration, result i refers
\* to the i-th configured item, and each iteration takes the item after the
\* last result and appends its result.
C15_ResultsInConfigOrder ==
    /\ [](/\ Len(results) = totalCount
          /\ Len(results) <= Len(Items)
          /\ counted = 1..Len(results)
          /\ copied \subseteq counted
          /\ \A i \in 1..Len(results) : results[i].Item = Items[i])
    /\ [][results' # results =>
             /\ Len(results') = Len(results) + 1
             /\ SubSeq(results', 1, Len(results)) = results
             /\ results'[Len(results')].Item = Items[Len(results) + 1]
             /\ counted' = counted \cup {Len(results) + 1}]_vars

\* C15 happens: two different items, the first failed and the second
\* succeeded, both results in the order of the configuration
C15_Witness ==
    /\ pc = "exit"
    /\ Len(Items) = 2 /\ Items[1] # Items[2]
    /\ Len(results) = 2
    /\ results[1] = [Item |-> Items[1], Success |-> FALSE]
    /\ results[2] = [Item |-> Items[2], Success |-> TRUE]

\* setup or validation failed: the destination is inaccessible, the
\* configuration is rejected, the free space cannot be read or is below the
\* minimum the application holds, or the run directory cannot be created
SetupFailed ==
    \/ step # "none" /\ ~destOK
    \/ step # "none" /\ destOK /\ validate(rawConfig).err
    \/ probe.called /\ ~probe.ok
    \/ probe.called /\ U64Less(probe.avail, app.BkpConfig.minFreeSpaceParsed)
    \/ step = "runBackupStart" /\ pc = "exit"

\* C16: the exit code is nonzero whenever setup or validation failed or some
\* item failed, the aborted runs included, and it is 0 when the run
\* completed with every item succeeded; no code is set before the exit.
C16_ExitCode ==
    /\ pc # "exit" => exitCode = -1
    /\ SetupFailed => pc = "exit" /\ exitCode \in {1, 2}
    /\ (pc = "exit" /\ failedItems # {}) => exitCode = 2
    /\ ( /\ step = "FinishRun"
         /\ Len(results) = Len(Items)
         /\ \A i \in 1..Len(results) : results[i].Success ) => exitCode = 0

\* C16 happens: without exit-on-error the first item succeeded and the
\* second failed, the run went to its end and the exit code is 2
C16_Witness ==
    /\ step = "FinishRun"
    /\ ~exitOnError
    /\ failedItems = {2}
    /\ Len(results) = 2 /\ results[1].Success
    /\ exitCode = 2

\* the first word of a typed line, in lower case: what fmt.Scanln stores
\* of the line, lower-cased
RECURSIVE FirstWord(_)
FirstWord(line) ==
    IF line = <<>> THEN <<>>
    ELSE IF Head(line) = " " THEN FirstWord(Tail(line))
    ELSE LET blanks == {i \in 1..Len(line) : line[i] = " "}
         IN  ToLower(SubSeq(line, 1, IF blanks = {} THEN Len(line) ELSE Min(blanks) - 1))

\* the state right after reviewBackupConfig asked whether to start
AskedToStart == step = "reviewBackupConfig" /\ prompt.at = "start"

\* C17 as stated: interactive, the backup starts only when the line typed
\* at the start prompt is exactly "yes".
C17_Original_ExactlyYes ==
    (AskedToStart /\ pc = "run") => prompt.typed = AnswerYes

\* C17, amended: interactive, the backup starts exactly when the first word
\* of the line typed at the start prompt is "yes" in any letter case; after
\* any other line the process ends with nothing created, no item processed
\* and no cleanup.  Non-interactive, no prompt is ever issued and the
\* backup starts once the review has passed.
C17_StartOnlyOnYes ==
    /\ AskedToStart =>
          /\ ~nonInteractive
          /\ IF FirstWord(prompt.typed) = AnswerYes
             THEN pc = "run"
             ELSE pc = "exit" /\ exitCode = 0
    /\ (step = "reviewBackupConfig" /\ pc = "exit") =>
          /\ created = {} /\ counted = {} /\ copied = {} /\ results = <<>>
          /\ ~cleanupRan /\ removed = {}
          /\ destFs \in FsInits
    /\ (~nonInteractive /\ step = "reviewBackupConfig" /\ pc # "exit") => AskedToStart
    /\ nonInteractive => prompt = NoPrompt
    /\ ( /\ nonInteractive /\ step = "reviewBackupConfig"
         /\ probe.ok /\ ~U64Less(probe.avail, app.BkpConfig.minFreeSpaceParsed)
         /\ Len(Items) > 0 ) => pc = "run"

\* C17 happens: the operator typed "YES" at the start prompt and the backup starts
C17_Witness ==
    /\ AskedToStart
    /\ prompt.typed = <<"Y", "E", "S">>
    /\ pc = "run"

\* C18 as stated: the run directory is owned by the run alone: the run
\* created it, it did not exist before the run started.
C18_RunDirOwned ==
    pc \in {"loop", "cleanup"} =>
        [path |-> app.bkpDestFullPath, item |-> 0] \in created

\* the last iteration ended on a failure of countTotalItems: the item was
\* counted, failed, and backupItem was not called for it
CountFailedLast ==
    /\ step = "ProcessItem"
    /\ totalCount \in failedItems
    /\ totalCount \notin copied

\* C20: a counting failure is handled as a copy failure is: the failure
\* counter moves, a result with Success = FALSE is appended for the item,
\* the item is not copied, and the exit-on-error policy applies: the loop
\* goes on when it is off, the run ends with the error when it is on and
\* non-interactive, the operator is asked when it is on and interactive.
C20_CountFailureIsFailure ==
    /\ \A i \in failedItems :
          /\ i <= Len(results) /\ ~results[i].Success
          /\ i \notin copied => \A c \in created : c.item # i
    /\ failedCount = Cardinality(failedItems)
    /\ CountFailedLast =>
          /\ Len(results) = totalCount
          /\ results[totalCount] = [Item |-> Items[totalCount], Success |-> FALSE]
          /\ ~exitOnError => pc \in {"loop", "cleanup"} /\ ~runErr
          /\ (exitOnError /\ nonInteractive) => pc = "exit" /\ exitCode = 2 /\ runErr
          /\ (exitOnError /\ ~nonInteractive) =>
                /\ prompt.at = "error"
                /\ IF Meant(prompt.typed) = AnswerNo
                   THEN pc \in {"loop", "cleanup"} /\ ~runErr
                   ELSE pc = "exit" /\ exitCode = 2 /\ runErr

\* C20 happens: counting the first of two items failed, the operator asked
\* to go on, and the item was never copied
C20_Witness ==
    /\ CountFailedLast
    /\ totalCount = 1 /\ Len(Items) = 2
    /\ exitOnError /\ ~nonInteractive
    /\ prompt = [at |-> "error", typed |-> AnswerNo]
    /\ pc = "loop"
    /\ failedCount = 1

\* C21 as stated: each callback takes floor(processed * 100 / total), the
\* indicator is drawn again only when that percentage is above the last one
\* drawn, and at most 101 redraws occur within one item.
C21_Original_AtMost101 ==
    /\ bar.redraws <= 101
    /\ bar.redraws > 0 => bar.lastUpdate <= Percentage(bar.processed, bar.total)

\* C21, amended: the indicator is drawn again only when the percentage
\* floor(processed * 100 / total) is above the last one drawn, so the drawn
\* percentages are strictly increasing, and one redraw is made per distinct
\* percentage: at most 101 as long as no more entries are copied than were
\* counted; each entry copied beyond the counted total moves the percentage
\* above 100 and may redraw again.  With a total of 0 nothing is drawn.
C21_MonotonicRedraw ==
    /\ [](/\ IF bar.total > 0
             THEN bar.redraws =
                     Cardinality({Percentage(k, bar.total) : k \in 1..bar.processed})
             ELSE bar.redraws = 0 /\ bar.lastUpdate = -1
          /\ bar.processed <= bar.total => bar.redraws <= 101 /\ bar.lastUpdate <= 100)
    /\ [][/\ bar'.lastUpdate >= bar.lastUpdate
          /\ bar'.redraws # bar.redraws =>
                /\ bar'.redraws = bar.redraws + 1
                /\ bar'.lastUpdate > bar.lastUpdate
                /\ bar'.lastUpdate = Percentage(bar'.processed, bar.total)
          /\ bar'.redraws = bar.redraws =>
                \/ bar.total = 0
                \/ Percentage(bar'.processed, bar.total) = bar.lastUpdate]_vars

\* C21 happens: 120 entries counted and copied, drawn 101 times from 0 to 100
C21_Witness ==
    /\ bar.total = 120 /\ bar.processed = 120
    /\ bar.redraws = 101 /\ bar.lastUpdate = 100

\* the entries the copy created under the item's destination: for a
\* directory item everything new but the destination directory itself, for a
\* single file the file
EntriesCreated ==
    IF wIn.source = SrcDir THEN wOut.new \ {CopyDest} ELSE wOut.new

\* C22 as stated: after a copy without error the progress callback has been
\* invoked once for every entry created, a directory, a file or a symbolic
\* link that was made again.
C22_CallbackPerEntry ==
    (wOut.done /\ ~wOut.err) => wOut.progress = Cardinality(EntriesCreated)

\* C23: when neither walk meets an error and the source tree is the same for
\* both, the total of the count walk is the number of entries the copy walk
\* creates under the item's destination; for a single file the total is 1
\* and the file is the one entry created.
C23_CountEqualsCreated ==
    (wOut.done /\ wIn.fault = NoFault) =>
        /\ ~wOut.err /\ ~wOut.countErr
        /\ wOut.total = Cardinality(EntriesCreated)
        /\ wIn.source = SrcDir =>
              /\ EntriesCreated = {CopyOf(r) : r \in {q \in TreeRels : PassesWalk(q)}}
              /\ (wIn.include = <<>> /\ wIn.exclude = <<>>) => wOut.total = Len(SrcTree)
        /\ wIn.source = SrcFile =>
              wOut.total = 1 /\ EntriesCreated = {CopyDest}

\* C23 happens: the directory item without patterns, four entries counted
\* and four created: two files, the link and a directory
C23_Witness ==
    /\ wOut.done /\ ~wOut.err /\ wIn.source = SrcDir /\ wIn.fault = NoFault
    /\ wIn.include = <<>> /\ wIn.exclude = <<>>
    /\ wOut.total = 4 /\ Cardinality(EntriesCreated) = 4
    /\ CopyOf(<<"t">>) \in wOut.fs.dirs

\* entry r is reached by a walk: no directory above it is left out
Visited(r) ==
    \A d \in TreeDirs : Below(r, d) => shouldInclude(d, wIn.include, wIn.exclude)

C30_SingleFileIgnoresPatterns ==
    (wOut.done /\ wIn.source = SrcFile) =>
        /\ ~wOut.countErr /\ wOut.total = 1
        /\ wOut.err <=> wIn.fault.at = 0
        /\ ~wOut.err =>
              /\ wOut.new = {Join(CopyRunDir, <<"d">>)}
              /\ wOut.fs = [CopyFs EXCEPT !.files = @ \cup {Join(CopyRunDir, <<"d">>)}]
              /\ wOut.progress = 1
        /\ wOut.err => wOut.progress = 0 /\ wOut.new = {}

\* C30 happens: the single file f under an include list that its name does
\* not match and an exclude glob that its name matches, copied all the same
C30_Witness ==
    /\ wOut.done /\ ~wOut.err /\ wIn.source = SrcFile
    /\ wIn.include = << <<"a">> >> /\ wIn.exclude = << <<"?">> >>
    /\ ~shouldInclude(Base(SrcFile), wIn.include, wIn.exclude)
    /\ Join(CopyRunDir, <<"d">>) \in wOut.fs.files
    /\ wOut.total = 1 /\ wOut.progress = 1

\* what a removal of cleanup may touch: the paths it tried and all below them
TouchedByCleanup(p) == \E d \in cOut.tried : IsUnder(p, d)

\* C25: cleanup tries to remove only immediate subdirectories of the backup
\* root whose name starts with Prefix and "-"; every other path is left as
\* it was: the regular files of the root (one named like a run directory
\* too), the directories of the root with other names and what they hold,
\* and everything outside the root; nothing is created.
C25_CleanupTouchesRunDirsOnly ==
    cOut.done =>
        /\ cOut.tried \subseteq RunDirsIn(cIn.fs, BackupRoot)
        /\ cOut.removed \subseteq cOut.tried
        /\ cOut.fs.dirs \subseteq cIn.fs.dirs
        /\ cOut.fs.files \subseteq cIn.fs.files
        /\ \A p \in cIn.fs.dirs : ~TouchedByCleanup(p) => p \in cOut.fs.dirs
        /\ \A p \in cIn.fs.files : ~TouchedByCleanup(p) => p \in cOut.fs.files
        /\ \A p \in cIn.fs.files :
              IsChildOf(p, BackupRoot) => p \in cOut.fs.files
        /\ \A p \in cIn.fs.dirs :
              (IsChildOf(p, BackupRoot) /\ ~HasPrefix(Base(p), Prefix \o <<"-">>)) =>
                  \A q \in cIn.fs.dirs \cup cIn.fs.files :
                      IsUnder(q, p) => q \in cOut.fs.dirs \cup cOut.fs.files
        /\ \A p \in cIn.fs.dirs \cup cIn.fs.files :
              ~IsUnder(p, BackupRoot) => p \in cOut.fs.dirs \cup cOut.fs.files
        /\ BackupRoot \in cOut.fs.dirs

\* C25 happens: the root holds the file smbkp-0, the directories smbkp and
\* smbkpx and three run directories; with keep = 1 two run directories are
\* removed and the file, the two directories and OutsideRun are still there
C25_Witness ==
    /\ cOut.done /\ cIn.keep = 1
    /\ Cardinality(cOut.removed) = 2
    /\ InRoot(RunDirName(<<"0">>)) \in cOut.fs.files
    /\ {InRoot(Prefix), InRoot(Prefix \o <<"x">>)} \subseteq cOut.fs.dirs
    /\ InRoot(Prefix) \o <<Separator>> \o RunDirName(<<"0">>) \in cOut.fs.dirs
    /\ OutsideRun \o <<"/", "f">> \in cOut.fs.files

\* C27 as stated: cleanup never removes the run directory of the current
\* run, whatever keep >= 1 is and whatever run directories exist.
C27_CurrentRunDirKept ==
    cOut.done => cIn.run \notin cOut.removed

\* the number and the unit of a string MinFreeSpacePattern accepts
SizeNumber(s) == ParseInt(SubSeq(ToLower(s), 1, Len(s) - 2))

SizeUnit(s) == SubSeq(ToLower(s), Len(s) - 1, Len(s))

\* n * 1024^k fits in 64 bits: no multiplication by 1024 carries out
RECURSIVE FitsTimes1024(_, _)
FitsTimes1024(n, k) ==
    k = 0 \/ (U64MulAdd(n, 1024, 0).carry = 0 /\ FitsTimes1024(U64Mul(n, 1024), k - 1))

\* C29 as stated: for every string validate accepts, "<N>mb" or "<N>gb", the
\* parsed minimum is N * 2^20 or N * 2^30 exactly, the product not wrapping
\* around 2^64, and of two accepted strings of one unit the one with the
\* larger N does not have the smaller minimum.
C29_ParsedSizeExact ==
    (vOut.done /\ ~vOut.err) =>
        LET s == vIn.MinFreeSpace
            k == IF SizeUnit(s) = <<"m", "b">> THEN 2 ELSE 3
        IN  /\ SizeNumber(s).ok
            /\ FitsTimes1024(SizeNumber(s).v, k)
            /\ \A t \in ValidateMinFreeSpace :
                  ( /\ ~validate([vIn EXCEPT !.MinFreeSpace = t]).err
                    /\ SizeUnit(t) = SizeUnit(s)
                    /\ U64Less(SizeNumber(t).v, SizeNumber(s).v) )
                  => ~U64Less(vOut.cfg.minFreeSpaceParsed, parseDiskSize(t).v)

\* C26: after every iteration of the item loop, and from then on, the result
\* list has one entry for each item attempted, totalCount is the sum of the
\* two counters and the length of the list, successCount is the number of
\* entries with Success and failedCount the number of those without; an
\* entry once in the list is neither changed nor removed afterwards.
C26_CountersMatchResults ==
    /\ [](/\ totalCount = successCount + failedCount
          /\ totalCount = Len(results)
          /\ successCount = Cardinality({i \in 1..Len(results) : results[i].Success})
          /\ failedCount = Cardinality({i \in 1..Len(results) : ~results[i].Success})
          /\ \A i \in counted : i \in 1..Len(results) /\ results[i].Item = Items[i])
    /\ [][/\ Len(results') >= Len(results)
          /\ \A i \in 1..Len(results) : results'[i] = results[i]
          /\ successCount' >= successCount
          /\ failedCount' >= failedCount
          /\ totalCount' \in {totalCount, totalCount + 1}]_vars

\* C26 happens: two items attempted, the first failed and the second copied:
\* two results, one failure and one success counted, after the run has ended
C26_Witness ==
    /\ step = "FinishRun"
    /\ totalCount = 2 /\ failedCount = 1 /\ successCount = 1
    /\ Len(results) = 2
    /\ ~results[1].Success /\ results[2].Success

\* the failure of the item just attempted ends the run under the
\* exit-on-error policy: the flag is set and, when a prompt is issued, the
\* answer is not "no"
AbortingFailure ==
    /\ pc = "loop" /\ step' = "ProcessItem"
    /\ failedItems' # failedItems
    /\ exitOnError
    /\ nonInteractive \/ Meant(prompt'.typed) # AnswerNo

\* C28: when the exit-on-error policy ends a run, runBackup returns from the
\* loop: the process ends with nothing after the loop having run.  Cleanup
\* was not called, no removal was tried, every directory and file that was
\* in the destination before the run is still there, and so are the run
\* directory and whatever the items attempted had written.
C28_AbortSkipsCleanup ==
    /\ [][AbortingFailure =>
             /\ pc' = "exit" /\ runErr'
             /\ ~cleanupRan' /\ deleteTried' = {} /\ removed' = {}
             /\ destFs.dirs \subseteq destFs'.dirs
             /\ destFs.files \subseteq destFs'.files]_vars
    /\ []((pc = "exit" /\ step = "ProcessItem") =>
             /\ failedItems # {} /\ exitOnError
             /\ ~cleanupRan /\ deleteTried = {} /\ removed = {}
             /\ FsUsed.dirs \subseteq destFs.dirs
             /\ FsUsed.files \subseteq destFs.files
             /\ app.bkpDestFullPath \in destFs.dirs
             /\ \A c \in created : c.path \in destFs.dirs \cup destFs.files)

\* C28 happens: the first item was copied into the run directory, the second
\* failed and the operator let the run stop: the run directory with the copy
\* of the first item and the two earlier run directories are in place
C28_Witness ==
    /\ pc = "exit" /\ step = "ProcessItem"
    /\ exitOnError /\ ~nonInteractive /\ prompt.at = "error"
    /\ failedItems = {2} /\ copied = {1, 2}
    /\ \E c \in created : c.item = 1 /\ IsUnder(c.path, app.bkpDestFullPath)
    /\ {OldRun1, OldRun3} \subseteq destFs.dirs
    /\ ~cleanupRan
====
